---- MODULE Spec2Model ----
(***************************************************************************)
(* The in-memory Person/Address/Course/Assignment API of new_main.py.      *)
(* The four module-level dictionaries are the state.  In Spec, SpecAll,    *)
(* SpecFields, SpecLists and SpecDeletes every HTTP handler is one atomic  *)
(* action: requests are served one at a time.  The handlers are plain      *)
(* `def`s, which FastAPI runs on a thread pool; SpecThreads splits the     *)
(* course and assignment handlers into the steps between which another     *)
(* thread can run.                                                         *)
(*                                                                         *)
(* Conventions                                                             *)
(*   - a Python dict / a pydantic model is a TLA+ function from field      *)
(*     names to values; a request body is the function of the fields the   *)
(*     client has set (model_fields_set), so "omitted" and "null" differ;  *)
(*   - Python None is None for str/UUID/date valued fields and NoPoints    *)
(*     for the Optional[int] field points, whose values are <<n>>;         *)
(*   - datetime.utcnow() reads the variable now, which only Tick advances; *)
(*   - uuid4() returns an identifier that no stored record carries;        *)
(*   - a handler that returns a record returns the very object it has just *)
(*     stored or looked up, so the reply names the record by its key.      *)
(* models/address.py and models/person.py are not part of the sources at   *)
(* hand; their schemas follow the written specification.                   *)
(***************************************************************************)
EXTENDS Integers, Sequences, FiniteSets, TLC

\* ------------------------------------------------------------------ bounds
MaxTime == 1
MaxRecords == 3
MaxTimedRecords == 2

\* ------------------------------------------------------- HTTP status codes
OK == 200
Created == 201
NoContent == 204
BadRequest == 400
NotFound == 404
MethodNotAllowed == 405
Conflict == 409
Unprocessable == 422
ServerError == 500

\* ------------------------------------------------------------ value domains
None == "None"
NoPoints == << >>
Some(n) == << n >>

CourseIds == {"c1", "c2"}
AssignmentIds == {"a1", "a2"}
AddressIds == {"d1", "d2"}
PersonIds == {"p1", "p2"}
\* a UUID that uuid4 never returns and no client stores under
UnknownId == "u0"

Codes == {"COMS4153", "X"}
Semesters == {"Fall 2025", "F25"}
CourseTitles == {"Cloud Computing", "Cloud"}
Instructors == {"Prof. Ferguson", "TBA"}
AssignmentTitles == {"HW1", "HW2"}
DueDates == {"2025-09-14"}
Cities == {"NYC", "LA"}
Streets == {"116th St", "Broadway"}
FirstNames == {"Ada", "Alan"}

\* the birth_date of a Person: a date, written as its ISO text, or Python None
NoDate == << >>
Date(iso) == << iso >>

\* str(value) of a birth_date: the ISO text of a date, "None" of None
str(value) == IF value = NoDate THEN "None" ELSE value[1]

PointsMin == 0
PointsMax == 1000
PointsDefault == 100

CourseFields == {"code", "title", "instructor", "semester"}
AssignmentFields == {"course_id", "title", "due_date", "points"}
AddressFields == {"street", "city", "state", "postal_code", "country"}
PersonFields == {"first_name", "last_name", "uni", "email", "phone",
                 "birth_date", "addresses"}

\* the worker threads of the server's pool that run the handlers
Threads == {"t1", "t2"}

\* a thread that runs no request
Idle == [pc |-> "idle"]

VARIABLES courses, assignments, addresses, persons, now, response, threads

vars == <<courses, assignments, addresses, persons, now, response, threads>>

stores == <<courses, assignments, addresses, persons>>

\* ------------------------------------------------------------ dict helpers
Values(d) == {d[k] : k \in DOMAIN d}

\* d[key] = value
Put(d, key, value) ==
    [k \in DOMAIN d \cup {key} |-> IF k = key THEN value ELSE d[k]]

\* a del that removes nothing
DelNothing(d, key) == d

\* del d[key]
Del(d, key) == [k \in DOMAIN d \ {key} |-> d[k]]

\* stored.update(newvals)
DictUpdate(stored, newvals) ==
    [k \in DOMAIN stored \cup DOMAIN newvals |->
        IF k \in DOMAIN newvals THEN newvals[k] ELSE stored[k]]

\* newvals.get(key, default)
Get(newvals, key, default) ==
    IF key \in DOMAIN newvals THEN newvals[key] ELSE default

\* the request bodies a client can send: the fields S of a body f are set,
\* the others omitted
Restrict(f, S) == [k \in S |-> f[k]]
Bodies(full, sets) == {Restrict(f, S) : f \in full, S \in sets}

\* model.model_dump() with every field, set or not
IncludeUnset(model, body) == model

\* model.model_dump(exclude_unset=True) of the model parsed from body: the
\* fields the client has set (model_fields_set)
ExcludeUnset(model, body) == Restrict(model, DOMAIN body)

\* --------------------------------------------------------- clock and uuid4
\* datetime.utcnow()
utcnow == now

\* an id generator that can repeat the id of a stored record
uuid4Repeating(pool, d) == pool

\* uuid4(): the identifiers it can return for a new record of store d, none
\* of them the key of a stored record
uuid4(pool, d) == pool \ DOMAIN d

\* ------------------------------------------------------------ HTTP replies
\* the reply to `return <the record stored under id>` (or `return None`) from
\* handler op, whose decorator declares status
Returned(op, status, id) == [by |-> op, status |-> status, body |-> id]

\* the reply the framework makes of an exception
Raised(status, detail) ==
    [by |-> "exception", status |-> status, body |-> detail]

\* the reply to `return results` from the list handler op: the records of
\* the list, named by their keys
Listed(op, ids) == [by |-> op, status |-> OK, body |-> None, items |-> ids]

Return(op, status, id) == response' = Returned(op, status, id)

\* raise HTTPException(status_code=status, detail=detail): nothing after
\* the raise runs
Raise(status, detail) ==
    /\ response' = Raised(status, detail)
    /\ UNCHANGED <<courses, assignments, addresses, persons>>

\* the details of the HTTPExceptions
CourseTaken == "Course already exists for this semester"
BadCourseId == "course_id must refer to an existing course"
AddressTaken == "Address with this ID already exists"

\* a body that fails the validation of the handler's parameter is answered
\* 422 by the framework and the handler does not run
Invalid == Raise(Unprocessable, "validation")

\* a pydantic ValidationError raised inside a handler is answered 500
Fails == Raise(ServerError, "Internal Server Error")

\* ------------------------------------------------------------ models/course
\* CourseCreate(CourseBase): the four str fields are required
CourseCreate(body) ==
    /\ DOMAIN body = CourseFields
    /\ \A k \in CourseFields : body[k] # None

\* CourseUpdate: every field Optional[str] = None
CourseUpdate(body) == DOMAIN body \subseteq CourseFields

\* CourseUpdate(**body): the fields not set are None
CourseUpdateModel(body) ==
    DictUpdate([code |-> None, title |-> None, instructor |-> None,
                semester |-> None], body)

\* a CourseRead that takes any value for its fields
CourseReadAny(data) == TRUE

\* CourseRead(**data) passes validation
CourseReadValid(data) ==
    \A k \in CourseFields : k \in DOMAIN data /\ data[k] # None

\* a CourseRead that makes a new id although data carries one
CourseReadNewId(data, id) ==
    Put(DictUpdate([created_at |-> utcnow, updated_at |-> utcnow], data),
        "id", CHOOSE other \in CourseIds \cup {UnknownId} : other # id)

\* CourseRead(**data): id, created_at and updated_at come from their
\* default factories when data does not carry them
CourseRead(data, id) ==
    DictUpdate([id |-> id, created_at |-> utcnow, updated_at |-> utcnow], data)

\* -------------------------------------------------------- courses endpoints
\* a uniqueness check that compares each field with the other one
CourseExistsSwapped(code, semester) ==
    \E c \in Values(courses) : c.code = semester /\ c.semester = code

\* any(c.code == code and c.semester == semester for c in courses.values())
CourseExists(code, semester) ==
    \E c \in Values(courses) : c.code = code /\ c.semester = semester

\* a uniqueness check that reads the pair the record had before the merge
CourseClashStored(course_id, new_code, new_sem) ==
    \E c \in Values(courses) :
        /\ c.id # course_id
        /\ c.code = courses[course_id].code
        /\ c.semester = courses[course_id].semester

\* a uniqueness check that does not leave out the record being updated
CourseClashAny(course_id, new_code, new_sem) ==
    \E c \in Values(courses) : c.code = new_code /\ c.semester = new_sem

\* any(c.id != course_id and c.code == new_code and c.semester == new_sem ...)
CourseClash(course_id, new_code, new_sem) ==
    \E c \in Values(courses) :
        c.id # course_id /\ c.code = new_code /\ c.semester = new_sem

create_course(course) ==
    /\ UNCHANGED <<now, threads, assignments, addresses, persons>>
    /\ IF ~CourseCreate(course)
         THEN Invalid
       ELSE IF CourseExists(course.code, course.semester)
         THEN Raise(Conflict, CourseTaken)
       ELSE \E id \in uuid4(CourseIds, courses) :
            LET data == DictUpdate(course,
                            [created_at |-> utcnow, updated_at |-> utcnow])
                record == CourseRead(data, id)
            IN  /\ courses' = Put(courses, record.id, record)
                /\ Return("create_course", Created, record.id)

\* the reply of get_course in the current state
get_course_reply(course_id) ==
    IF course_id \notin DOMAIN courses
      THEN Raised(NotFound, "Course not found")
      ELSE Returned("get_course", OK, course_id)

get_course(course_id) ==
    /\ UNCHANGED <<now, threads, stores>>
    /\ response' = get_course_reply(course_id)

\* an update_course that stores the merged dict before it is validated
update_course_unvalidated(course_id, update) ==
    /\ UNCHANGED <<now, threads, assignments, addresses, persons>>
    /\ course_id \in DOMAIN courses
    /\ LET stored == courses[course_id]
           newvals == ExcludeUnset(CourseUpdateModel(update), update)
           merged == Put(DictUpdate(stored, newvals), "updated_at", utcnow)
       IN  /\ courses' = Put(courses, course_id, merged)
           /\ IF CourseReadValid(merged)
                THEN Return("update_course", OK, course_id)
                ELSE response' = Raised(ServerError, "Internal Server Error")

update_course(course_id, update) ==
    /\ UNCHANGED <<now, threads, assignments, addresses, persons>>
    /\ IF ~CourseUpdate(update)
         THEN Invalid
       ELSE IF course_id \notin DOMAIN courses
         THEN Raise(NotFound, "Course not found")
       ELSE LET stored == courses[course_id]
                newvals == ExcludeUnset(CourseUpdateModel(update), update)
                new_code == Get(newvals, "code", stored.code)
                new_sem == Get(newvals, "semester", stored.semester)
                merged == Put(DictUpdate(stored, newvals), "updated_at", utcnow)
            IN  IF CourseClash(course_id, new_code, new_sem)
                  THEN Raise(Conflict, CourseTaken)
                ELSE IF ~CourseReadValid(merged)
                  THEN Fails
                ELSE /\ courses' = Put(courses, course_id,
                                       CourseRead(merged, merged.id))
                     /\ Return("update_course", OK, course_id)

\* a cascade that takes every stored Assignment
AssignmentsOfAll(course_id) == DOMAIN assignments

\* a cascade that finds nothing to delete
AssignmentsOfNone(course_id) == {}

\* a cascade that stops after the first Assignment it finds
AssignmentsOfFirst(course_id) ==
    LET found == {aid \in DOMAIN assignments :
                     assignments[aid].course_id = course_id}
    IN  IF found = {} THEN {} ELSE {CHOOSE aid \in found : TRUE}

\* [aid for aid, a in assignments.items() if a.course_id == course_id]
AssignmentsOf(course_id) ==
    {aid \in DOMAIN assignments : assignments[aid].course_id = course_id}

delete_course(course_id) ==
    /\ UNCHANGED <<now, threads, addresses, persons>>
    /\ IF course_id \notin DOMAIN courses
         THEN Raise(NotFound, "Course not found")
         ELSE /\ assignments' = Restrict(assignments,
                     DOMAIN assignments \ AssignmentsOf(course_id))
              /\ courses' = Del(courses, course_id)
              /\ Return("delete_course", NoContent, None)

\* -------------------------------------------------------- models/assignment
\* points without the ge and le constraints
PointsUnchecked(points) == TRUE

\* points: Optional[int] = Field(..., ge=0, le=1000)
PointsOk(points) ==
    points = NoPoints \/ (points[1] >= PointsMin /\ points[1] <= PointsMax)

\* AssignmentCreate(AssignmentBase): course_id and title are required
AssignmentCreate(body) ==
    /\ DOMAIN body \subseteq AssignmentFields
    /\ "course_id" \in DOMAIN body /\ body.course_id # None
    /\ "title" \in DOMAIN body /\ body.title # None
    /\ "points" \in DOMAIN body => PointsOk(body.points)

\* assignment.model_dump(): the fields not set carry their defaults
AssignmentDump(body) ==
    DictUpdate([due_date |-> None, points |-> Some(PointsDefault)], body)

\* AssignmentUpdate: every field Optional, points still within its range
AssignmentUpdate(body) ==
    /\ DOMAIN body \subseteq AssignmentFields
    /\ "points" \in DOMAIN body => PointsOk(body.points)

\* AssignmentUpdate(**body): the fields not set are None
AssignmentUpdateModel(body) ==
    DictUpdate([course_id |-> None, title |-> None, due_date |-> None,
                points |-> NoPoints], body)

\* AssignmentRead(**data) passes validation
AssignmentReadValid(data) ==
    /\ AssignmentFields \subseteq DOMAIN data
    /\ data.course_id # None
    /\ data.title # None
    /\ PointsOk(data.points)

\* AssignmentRead(**data): id, created_at and updated_at come from their
\* default factories when data does not carry them
AssignmentRead(data, id) ==
    DictUpdate([id |-> id, created_at |-> utcnow, updated_at |-> utcnow], data)

\* ---------------------------------------------------- assignments endpoints
\* a reference check that turns down null only
DanglingNull(newvals) ==
    "course_id" \in DOMAIN newvals /\ newvals.course_id = None

\* "course_id" in newvals and newvals["course_id"] not in courses
Dangling(newvals) ==
    "course_id" \in DOMAIN newvals /\ newvals.course_id \notin DOMAIN courses

create_assignment(assignment) ==
    /\ UNCHANGED <<now, threads, courses, addresses, persons>>
    /\ IF ~AssignmentCreate(assignment)
         THEN Invalid
       ELSE IF assignment.course_id \notin DOMAIN courses
         THEN Raise(BadRequest, BadCourseId)
       ELSE \E id \in uuid4(AssignmentIds, assignments) :
            LET data == DictUpdate(AssignmentDump(assignment),
                            [created_at |-> utcnow, updated_at |-> utcnow])
                record == AssignmentRead(data, id)
            IN  /\ assignments' = Put(assignments, record.id, record)
                /\ Return("create_assignment", Created, record.id)

\* the reply of get_assignment in the current state
get_assignment_reply(assignment_id) ==
    IF assignment_id \notin DOMAIN assignments
      THEN Raised(NotFound, "Assignment not found")
      ELSE Returned("get_assignment", OK, assignment_id)

get_assignment(assignment_id) ==
    /\ UNCHANGED <<now, threads, stores>>
    /\ response' = get_assignment_reply(assignment_id)

\* an update_assignment that checks the course reference before it looks
\* the Assignment up
update_assignment_reference_first(assignment_id, update) ==
    /\ UNCHANGED <<now, threads, courses, addresses, persons>>
    /\ IF ~AssignmentUpdate(update)
         THEN Invalid
       ELSE IF Dangling(ExcludeUnset(AssignmentUpdateModel(update), update))
         THEN Raise(BadRequest, BadCourseId)
       ELSE IF assignment_id \notin DOMAIN assignments
         THEN Raise(NotFound, "Assignment not found")
       ELSE LET stored == assignments[assignment_id]
                newvals == ExcludeUnset(AssignmentUpdateModel(update), update)
                merged == Put(DictUpdate(stored, newvals), "updated_at", utcnow)
            IN  IF ~AssignmentReadValid(merged)
                  THEN Fails
                ELSE /\ assignments' = Put(assignments, assignment_id,
                                           AssignmentRead(merged, merged.id))
                     /\ Return("update_assignment", OK, assignment_id)

update_assignment(assignment_id, update) ==
    /\ UNCHANGED <<now, threads, courses, addresses, persons>>
    /\ IF ~AssignmentUpdate(update)
         THEN Invalid
       ELSE IF assignment_id \notin DOMAIN assignments
         THEN Raise(NotFound, "Assignment not found")
       ELSE LET stored == assignments[assignment_id]
                newvals == ExcludeUnset(AssignmentUpdateModel(update), update)
                merged == Put(DictUpdate(stored, newvals), "updated_at", utcnow)
            IN  IF Dangling(newvals)
                  THEN Raise(BadRequest, BadCourseId)
                ELSE IF ~AssignmentReadValid(merged)
                  THEN Fails
                ELSE /\ assignments' = Put(assignments, assignment_id,
                                           AssignmentRead(merged, merged.id))
                     /\ Return("update_assignment", OK, assignment_id)

delete_assignment(assignment_id) ==
    /\ UNCHANGED <<now, threads, courses, addresses, persons>>
    /\ IF assignment_id \notin DOMAIN assignments
         THEN Raise(NotFound, "Assignment not found")
         ELSE /\ assignments' = Del(assignments, assignment_id)
              /\ Return("delete_assignment", NoContent, None)

\* ----------------------------------------------------------- models/address
\* AddressCreate: the client supplies the id with the five str fields
AddressCreate(body) ==
    /\ DOMAIN body = AddressFields \cup {"id"}
    /\ \A k \in DOMAIN body : body[k] # None

\* AddressUpdate: every field Optional
AddressUpdate(body) == DOMAIN body \subseteq AddressFields

\* AddressUpdate(**body): the fields not set are None
AddressUpdateModel(body) ==
    DictUpdate([street |-> None, city |-> None, state |-> None,
                postal_code |-> None, country |-> None], body)

\* AddressRead(**data) passes validation
AddressReadValid(data) ==
    \A k \in AddressFields \cup {"id"} : k \in DOMAIN data /\ data[k] # None

\* AddressRead(**data): created_at and updated_at are stamped at
\* construction when data does not carry them
AddressRead(data) ==
    DictUpdate([created_at |-> utcnow, updated_at |-> utcnow], data)

\* ------------------------------------------------------ addresses endpoints
\* a create_address that stores under an id whether or not it is taken
create_address_overwriting(address) ==
    /\ UNCHANGED <<now, threads, courses, assignments, persons>>
    /\ IF ~AddressCreate(address)
         THEN Invalid
         ELSE /\ addresses' = Put(addresses, address.id, AddressRead(address))
              /\ Return("create_address", Created, address.id)

create_address(address) ==
    /\ UNCHANGED <<now, threads, courses, assignments, persons>>
    /\ IF ~AddressCreate(address)
         THEN Invalid
       ELSE IF address.id \in DOMAIN addresses
         THEN Raise(BadRequest, AddressTaken)
       ELSE /\ addresses' = Put(addresses, address.id, AddressRead(address))
            /\ Return("create_address", Created, address.id)

\* the reply of get_address in the current state
get_address_reply(address_id) ==
    IF address_id \notin DOMAIN addresses
      THEN Raised(NotFound, "Address not found")
      ELSE Returned("get_address", OK, address_id)

get_address(address_id) ==
    /\ UNCHANGED <<now, threads, stores>>
    /\ response' = get_address_reply(address_id)

update_address(address_id, update) ==
    /\ UNCHANGED <<now, threads, courses, assignments, persons>>
    /\ IF ~AddressUpdate(update)
         THEN Invalid
       ELSE IF address_id \notin DOMAIN addresses
         THEN Raise(NotFound, "Address not found")
       ELSE LET stored == DictUpdate(addresses[address_id],
                        ExcludeUnset(AddressUpdateModel(update), update))
            IN  IF ~AddressReadValid(stored)
                  THEN Fails
                ELSE /\ addresses' = Put(addresses, address_id,
                                         AddressRead(stored))
                     /\ Return("update_address", OK, address_id)

\* no route answers DELETE /addresses/{address_id}: the path is known to
\* the router through get_address and update_address only
delete_address(address_id) ==
    /\ UNCHANGED <<now, threads>>
    /\ Raise(MethodNotAllowed, "Method Not Allowed")

\* ------------------------------------------------------------ models/person
\* PersonCreate, PersonUpdate: no field is required
PersonCreate(body) == DOMAIN body \subseteq PersonFields

PersonUpdate(body) == DOMAIN body \subseteq PersonFields

\* PersonUpdate(**body): the fields not set are None (addresses: none)
PersonUpdateModel(body) ==
    DictUpdate([first_name |-> None, last_name |-> None, uni |-> None,
                email |-> None, phone |-> None, birth_date |-> NoDate,
                addresses |-> << >>], body)

\* person.model_dump(): the fields not set carry their defaults
PersonDump(body) ==
    DictUpdate([first_name |-> None, last_name |-> None, uni |-> None,
                email |-> None, phone |-> None, birth_date |-> NoDate,
                addresses |-> << >>], body)

\* PersonRead(**data): id, created_at and updated_at are made at
\* construction when data does not carry them
PersonRead(data, id) ==
    DictUpdate([id |-> id, created_at |-> utcnow, updated_at |-> utcnow], data)

\* -------------------------------------------------------- persons endpoints
create_person(person) ==
    /\ UNCHANGED <<now, threads, courses, assignments, addresses>>
    /\ IF ~PersonCreate(person)
         THEN Invalid
       ELSE \E id \in uuid4(PersonIds, persons) :
            LET person_read == PersonRead(PersonDump(person), id)
            IN  /\ persons' = Put(persons, person_read.id, person_read)
                /\ Return("create_person", Created, person_read.id)

\* the reply of get_person in the current state
get_person_reply(person_id) ==
    IF person_id \notin DOMAIN persons
      THEN Raised(NotFound, "Person not found")
      ELSE Returned("get_person", OK, person_id)

get_person(person_id) ==
    /\ UNCHANGED <<now, threads, stores>>
    /\ response' = get_person_reply(person_id)

update_person(person_id, update) ==
    /\ UNCHANGED <<now, threads, courses, assignments, addresses>>
    /\ IF ~PersonUpdate(update)
         THEN Invalid
       ELSE IF person_id \notin DOMAIN persons
         THEN Raise(NotFound, "Person not found")
       ELSE LET stored == DictUpdate(persons[person_id],
                        ExcludeUnset(PersonUpdateModel(update), update))
            IN  /\ persons' = Put(persons, person_id,
                                  PersonRead(stored, stored.id))
                /\ Return("update_person", OK, person_id)

\* no route answers DELETE /persons/{person_id}
delete_person(person_id) ==
    /\ UNCHANGED <<now, threads>>
    /\ Raise(MethodNotAllowed, "Method Not Allowed")

\* ---------------------------------------------------------- list endpoints
\* A query is the function of the query parameters the client has supplied;
\* a parameter left out has its default None.
\* if <field> is not None: results = [r for r in results if r.<field> == <field>]
Keep(results, d, query, field) ==
    IF field \in DOMAIN query
      THEN {k \in results : d[k][field] = query[field]}
      ELSE results

\* the records list_addresses returns
list_addresses_results(query) ==
    LET r0 == DOMAIN addresses
        r1 == Keep(r0, addresses, query, "street")
        r2 == Keep(r1, addresses, query, "city")
        r3 == Keep(r2, addresses, query, "state")
        r4 == Keep(r3, addresses, query, "postal_code")
    IN  Keep(r4, addresses, query, "country")

list_addresses(query) ==
    /\ UNCHANGED <<now, threads, stores>>
    /\ response' = Listed("list_addresses", list_addresses_results(query))

\* results = [p for p in results if str(p.birth_date) == birth_date]
KeepBirthDate(results, query) ==
    IF "birth_date" \in DOMAIN query
      THEN {k \in results : str(persons[k].birth_date) = query.birth_date}
      ELSE results

\* results = [p for p in results if any(addr.<field> == <field> ...)]
KeepAnyAddress(results, query, field) ==
    IF field \in DOMAIN query
      THEN {k \in results :
              \E i \in DOMAIN persons[k].addresses :
                  persons[k].addresses[i][field] = query[field]}
      ELSE results

\* the records list_persons returns
list_persons_results(query) ==
    LET r0 == DOMAIN persons
        r1 == Keep(r0, persons, query, "uni")
        r2 == Keep(r1, persons, query, "first_name")
        r3 == Keep(r2, persons, query, "last_name")
        r4 == Keep(r3, persons, query, "email")
        r5 == Keep(r4, persons, query, "phone")
        r6 == KeepBirthDate(r5, query)
        r7 == KeepAnyAddress(r6, query, "city")
    IN  KeepAnyAddress(r7, query, "country")

list_persons(query) ==
    /\ UNCHANGED <<now, threads, stores>>
    /\ response' = Listed("list_persons", list_persons_results(query))

\* the records list_courses returns
list_courses_results(query) ==
    LET r0 == DOMAIN courses
        r1 == Keep(r0, courses, query, "code")
        r2 == Keep(r1, courses, query, "semester")
    IN  Keep(r2, courses, query, "instructor")

list_courses(query) ==
    /\ UNCHANGED <<now, threads, stores>>
    /\ response' = Listed("list_courses", list_courses_results(query))

\* the records list_assignments returns
list_assignments_results(query) ==
    Keep(DOMAIN assignments, assignments, query, "course_id")

list_assignments(query) ==
    /\ UNCHANGED <<now, threads, stores>>
    /\ response' = Listed("list_assignments", list_assignments_results(query))

\* ------------------------------------------------------------ the requests
\* UUIDs a client can name in a path or a body
CourseRefs == CourseIds \cup {UnknownId}
AssignmentRefs == AssignmentIds \cup {UnknownId}
AddressRefs == AddressIds \cup {UnknownId}
PersonRefs == PersonIds \cup {UnknownId}

\* records held by the four stores together
Stored ==
    Cardinality(DOMAIN courses) + Cardinality(DOMAIN assignments)
        + Cardinality(DOMAIN addresses) + Cardinality(DOMAIN persons)

\* the clock advances between, never within, requests
Tick ==
    /\ now < MaxTime
    /\ now' = now + 1
    /\ UNCHANGED <<stores, response, threads>>

Init ==
    /\ courses = << >>
    /\ assignments = << >>
    /\ addresses = << >>
    /\ persons = << >>
    /\ now = 0
    /\ response = Returned("root", OK, None)
    /\ threads = [t \in Threads |-> Idle]

\* --------------------------------------------------------------------------
\* Spec: a client of the courses and assignments endpoints that sends one
\* request at a time, varies the fields the integrity rules read, and keeps
\* at most MaxRecords records stored.  No handler reads a timestamp, and all
\* these requests fall within one reading of the clock.
CourseCreateSent ==
    Bodies([code : Codes, title : {"Cloud"}, instructor : {"TBA"},
            semester : Semesters],
           {CourseFields, CourseFields \ {"title"}})

CourseUpdateSent ==
    Bodies([code : Codes, semester : Semesters], SUBSET {"code", "semester"})

AssignmentCreateSent ==
    Bodies([course_id : CourseRefs, title : {"HW1"}],
           {{"course_id", "title"}})

AssignmentUpdateSent ==
    Bodies([course_id : CourseRefs \cup {None}, title : {"HW2"}],
           SUBSET {"course_id", "title"})

Next ==
    \/ \E course \in CourseCreateSent :
          Stored < MaxRecords /\ create_course(course)
    \/ \E course_id \in CourseRefs : get_course(course_id)
    \/ \E course_id \in CourseRefs, update \in CourseUpdateSent :
          update_course(course_id, update)
    \/ \E course_id \in CourseRefs : delete_course(course_id)
    \/ \E assignment \in AssignmentCreateSent :
          Stored < MaxRecords /\ create_assignment(assignment)
    \/ \E assignment_id \in AssignmentRefs : get_assignment(assignment_id)
    \/ \E assignment_id \in AssignmentRefs, update \in AssignmentUpdateSent :
          update_assignment(assignment_id, update)
    \/ \E assignment_id \in AssignmentRefs : delete_assignment(assignment_id)

Spec == Init /\ [][Next]_vars

\* --------------------------------------------------------------------------
\* SpecAll: a client of all four resources that sends one request at a time
\* while the clock advances, sets, omits and nulls every field of a body, and
\* keeps at most MaxTimedRecords records stored.
CourseCreateAll ==
    Bodies([code : Codes, title : {"Cloud"}, instructor : {"TBA"},
            semester : {"F25"}],
           {CourseFields, CourseFields \ {"title"}})

CourseUpdateAll ==
    Bodies([code : {"X", None}, title : {"Cloud Computing"}],
           SUBSET {"code", "title"})

AssignmentCreateAll ==
    Bodies([course_id : CourseRefs, title : {"HW1"},
            points : {Some(PointsMax + 1)}],
           {{"course_id", "title"}, {"course_id", "title", "points"}})

AssignmentUpdateAll ==
    Bodies([course_id : CourseRefs, title : {"HW2"},
            points : {Some(PointsMin), Some(PointsMin - 1)}],
           SUBSET {"course_id", "title", "points"})

AddressCreateAll ==
    Bodies([id : AddressIds, street : {"Broadway"}, city : {"NYC"},
            state : {"NY"}, postal_code : {"10027"}, country : {"USA"}],
           {AddressFields \cup {"id"}, (AddressFields \ {"city"}) \cup {"id"}})

AddressUpdateAll ==
    Bodies([street : {"Broadway"}, city : {"LA", None}],
           SUBSET {"street", "city"})

PersonCreateAll ==
    Bodies([first_name : {"Ada"}], {{}, {"first_name"}})

PersonUpdateAll ==
    Bodies([first_name : {"Alan", None}, uni : {"al1815"}],
           SUBSET {"first_name", "uni"})

NextAll ==
    \/ Tick
    \/ \E course \in CourseCreateAll :
          Stored < MaxTimedRecords /\ create_course(course)
    \/ \E course_id \in CourseRefs : get_course(course_id)
    \/ \E course_id \in CourseRefs, update \in CourseUpdateAll :
          update_course(course_id, update)
    \/ \E course_id \in CourseRefs : delete_course(course_id)
    \/ \E assignment \in AssignmentCreateAll :
          Stored < MaxTimedRecords /\ create_assignment(assignment)
    \/ \E assignment_id \in AssignmentRefs : get_assignment(assignment_id)
    \/ \E assignment_id \in AssignmentRefs, update \in AssignmentUpdateAll :
          update_assignment(assignment_id, update)
    \/ \E assignment_id \in AssignmentRefs : delete_assignment(assignment_id)
    \/ \E address \in AddressCreateAll :
          Stored < MaxTimedRecords /\ create_address(address)
    \/ \E address_id \in AddressRefs : get_address(address_id)
    \/ \E address_id \in AddressRefs, update \in AddressUpdateAll :
          update_address(address_id, update)
    \/ \E address_id \in AddressRefs : delete_address(address_id)
    \/ \E person \in PersonCreateAll :
          Stored < MaxTimedRecords /\ create_person(person)
    \/ \E person_id \in PersonRefs : get_person(person_id)
    \/ \E person_id \in PersonRefs, update \in PersonUpdateAll :
          update_person(person_id, update)
    \/ \E person_id \in PersonRefs : delete_person(person_id)

SpecAll == Init /\ [][NextAll]_vars

\* --------------------------------------------------------------------------
\* SpecThreads: the handlers are plain `def`s, which the framework runs on
\* the threads of a pool, so two requests are in flight at once and a thread
\* can be preempted between two statements of its handler.  Each action
\* below is one run of consecutive statements of a handler; what the handler
\* has read so far is kept in the frame of its thread.  The bodies have
\* passed the validation of the handler's parameter.
CourseCreateThreads ==
    Bodies([code : Codes, title : {"Cloud"}, instructor : {"TBA"},
            semester : {"F25"}],
           {CourseFields})

CourseUpdateThreads == Bodies([code : Codes], {{"code"}})

AssignmentCreateThreads ==
    Bodies([course_id : CourseIds, title : {"HW1"}], {{"course_id", "title"}})

AssignmentUpdateThreads == Bodies([course_id : CourseIds], {{"course_id"}})

\* the frame of thread t
Frame(t) == threads[t]

At(t, pc) == threads[t].pc = pc

\* thread t goes on with the next statements of its handler
Goto(t, frame) ==
    /\ threads' = [threads EXCEPT ![t] = frame]
    /\ UNCHANGED <<courses, assignments, addresses, persons, response>>

\* the handler of thread t has returned or raised
Done(t) == threads' = [threads EXCEPT ![t] = Idle]

\* threads that are at pc
Pending(pc) == Cardinality({t \in Threads : threads[t].pc = pc})

\* the UUIDs of stored Courses and of Courses a handler is about to write
CourseIdsInUse ==
    DOMAIN courses
      \cup {threads[t].course_id :
              t \in {u \in Threads : threads[u].pc \in
                        {"update_course_scan", "update_course_store"}}}

AssignmentIdsInUse ==
    DOMAIN assignments
      \cup {threads[t].assignment_id :
              t \in {u \in Threads : threads[u].pc \in
                        {"update_assignment_check", "update_assignment_store"}}}

\* uuid4 has an identifier left for one more record
CourseIdLeft ==
    Cardinality(CourseIdsInUse) + Pending("create_course_store")
        < Cardinality(CourseIds)

AssignmentIdLeft ==
    Cardinality(AssignmentIdsInUse) + Pending("create_assignment_store")
        < Cardinality(AssignmentIds)

\* create_course, lines 161-162: the uniqueness scan
create_course_scan(t, course) ==
    /\ At(t, "idle")
    /\ CourseCreate(course)
    /\ UNCHANGED now
    /\ IF CourseExists(course.code, course.semester)
         THEN Raise(Conflict, CourseTaken) /\ Done(t)
         ELSE Goto(t, [pc |-> "create_course_store", course |-> course])

\* create_course, lines 164-170: the record is made and stored
create_course_store(t) ==
    /\ At(t, "create_course_store")
    /\ UNCHANGED <<now, assignments, addresses, persons>>
    /\ \E id \in uuid4(CourseIds, courses) :
          LET data == DictUpdate(Frame(t).course,
                          [created_at |-> utcnow, updated_at |-> utcnow])
              record == CourseRead(data, id)
          IN  /\ courses' = Put(courses, record.id, record)
              /\ Return("create_course", Created, record.id)
    /\ Done(t)

\* update_course, lines 195-198: the existence check and the two dumps
update_course_load(t, course_id, update) ==
    /\ At(t, "idle")
    /\ CourseUpdate(update)
    /\ UNCHANGED now
    /\ IF course_id \notin DOMAIN courses
         THEN Raise(NotFound, "Course not found") /\ Done(t)
         ELSE Goto(t, [pc |-> "update_course_scan",
                       course_id |-> course_id,
                       stored |-> courses[course_id],
                       newvals |-> ExcludeUnset(CourseUpdateModel(update),
                                                update)])

\* update_course, lines 200-203: the uniqueness scan
update_course_scan(t) ==
    /\ At(t, "update_course_scan")
    /\ UNCHANGED now
    /\ LET stored == Frame(t).stored
           newvals == Frame(t).newvals
           new_code == Get(newvals, "code", stored.code)
           new_sem == Get(newvals, "semester", stored.semester)
       IN  IF CourseClash(Frame(t).course_id, new_code, new_sem)
             THEN Raise(Conflict, CourseTaken) /\ Done(t)
             ELSE Goto(t, [Frame(t) EXCEPT !.pc = "update_course_store"])

\* update_course, lines 204-207: the merge and the store
update_course_store(t) ==
    /\ At(t, "update_course_store")
    /\ UNCHANGED <<now, assignments, addresses, persons>>
    /\ LET merged == Put(DictUpdate(Frame(t).stored, Frame(t).newvals),
                         "updated_at", utcnow)
       IN  IF ~CourseReadValid(merged)
             THEN Fails
             ELSE /\ courses' = Put(courses, Frame(t).course_id,
                                    CourseRead(merged, merged.id))
                  /\ Return("update_course", OK, Frame(t).course_id)
    /\ Done(t)

\* delete_course, lines 211-212: the existence check
delete_course_check(t, course_id) ==
    /\ At(t, "idle")
    /\ UNCHANGED now
    /\ IF course_id \notin DOMAIN courses
         THEN Raise(NotFound, "Course not found") /\ Done(t)
         ELSE Goto(t, [pc |-> "delete_course_scan", course_id |-> course_id])

\* delete_course, line 214: the list of the Assignments to remove is built
delete_course_scan(t) ==
    /\ At(t, "delete_course_scan")
    /\ UNCHANGED now
    /\ Goto(t, [pc |-> "delete_course_cascade",
                course_id |-> Frame(t).course_id,
                aids |-> AssignmentsOf(Frame(t).course_id)])

\* delete_course, line 215: one `del assignments[aid]` of the loop; a key
\* that is gone by now raises KeyError
delete_course_cascade(t) ==
    /\ At(t, "delete_course_cascade")
    /\ UNCHANGED now
    /\ \E aid \in Frame(t).aids :
          IF aid \in DOMAIN assignments
            THEN /\ assignments' = Del(assignments, aid)
                 /\ threads' = [threads EXCEPT ![t].aids = @ \ {aid}]
                 /\ UNCHANGED <<courses, addresses, persons, response>>
            ELSE Fails /\ Done(t)

\* delete_course, line 216: `del courses[course_id]` after the loop
delete_course_del(t) ==
    /\ At(t, "delete_course_cascade")
    /\ Frame(t).aids = {}
    /\ UNCHANGED now
    /\ IF Frame(t).course_id \in DOMAIN courses
         THEN /\ courses' = Del(courses, Frame(t).course_id)
              /\ UNCHANGED <<assignments, addresses, persons>>
              /\ Return("delete_course", NoContent, None)
         ELSE Fails
    /\ Done(t)

\* create_assignment, lines 221-222: the reference check
create_assignment_check(t, assignment) ==
    /\ At(t, "idle")
    /\ AssignmentCreate(assignment)
    /\ UNCHANGED now
    /\ IF assignment.course_id \notin DOMAIN courses
         THEN Raise(BadRequest, BadCourseId) /\ Done(t)
         ELSE Goto(t, [pc |-> "create_assignment_store",
                       assignment |-> assignment])

\* create_assignment, lines 223-228: the record is made and stored
create_assignment_store(t) ==
    /\ At(t, "create_assignment_store")
    /\ UNCHANGED <<now, courses, addresses, persons>>
    /\ \E id \in uuid4(AssignmentIds, assignments) :
          LET data == DictUpdate(AssignmentDump(Frame(t).assignment),
                          [created_at |-> utcnow, updated_at |-> utcnow])
              record == AssignmentRead(data, id)
          IN  /\ assignments' = Put(assignments, record.id, record)
              /\ Return("create_assignment", Created, record.id)
    /\ Done(t)

\* update_assignment, lines 245-248: the existence check and the two dumps
update_assignment_load(t, assignment_id, update) ==
    /\ At(t, "idle")
    /\ AssignmentUpdate(update)
    /\ UNCHANGED now
    /\ IF assignment_id \notin DOMAIN assignments
         THEN Raise(NotFound, "Assignment not found") /\ Done(t)
         ELSE Goto(t, [pc |-> "update_assignment_check",
                       assignment_id |-> assignment_id,
                       stored |-> assignments[assignment_id],
                       newvals |-> ExcludeUnset(AssignmentUpdateModel(update),
                                                update)])

\* update_assignment, lines 250-251: the reference check
update_assignment_check(t) ==
    /\ At(t, "update_assignment_check")
    /\ UNCHANGED now
    /\ IF Dangling(Frame(t).newvals)
         THEN Raise(BadRequest, BadCourseId) /\ Done(t)
         ELSE Goto(t, [Frame(t) EXCEPT !.pc = "update_assignment_store"])

\* update_assignment, lines 252-255: the merge and the store
update_assignment_store(t) ==
    /\ At(t, "update_assignment_store")
    /\ UNCHANGED <<now, courses, addresses, persons>>
    /\ LET merged == Put(DictUpdate(Frame(t).stored, Frame(t).newvals),
                         "updated_at", utcnow)
       IN  IF ~AssignmentReadValid(merged)
             THEN Fails
             ELSE /\ assignments' = Put(assignments, Frame(t).assignment_id,
                                        AssignmentRead(merged, merged.id))
                  /\ Return("update_assignment", OK, Frame(t).assignment_id)
    /\ Done(t)

NextThreads ==
    \/ \E t \in Threads, course \in CourseCreateThreads :
          CourseIdLeft /\ create_course_scan(t, course)
    \/ \E t \in Threads : create_course_store(t)
    \/ \E t \in Threads, course_id \in CourseIds,
          update \in CourseUpdateThreads :
          update_course_load(t, course_id, update)
    \/ \E t \in Threads : update_course_scan(t)
    \/ \E t \in Threads : update_course_store(t)
    \/ \E t \in Threads, course_id \in CourseIds :
          delete_course_check(t, course_id)
    \/ \E t \in Threads : delete_course_scan(t)
    \/ \E t \in Threads : delete_course_cascade(t)
    \/ \E t \in Threads : delete_course_del(t)
    \/ \E t \in Threads, assignment \in AssignmentCreateThreads :
          AssignmentIdLeft /\ create_assignment_check(t, assignment)
    \/ \E t \in Threads : create_assignment_store(t)
    \/ \E t \in Threads, assignment_id \in AssignmentIds,
          update \in AssignmentUpdateThreads :
          update_assignment_load(t, assignment_id, update)
    \/ \E t \in Threads : update_assignment_check(t)
    \/ \E t \in Threads : update_assignment_store(t)

SpecThreads == Init /\ [][NextThreads]_vars

\* --------------------------------------------------------------------------
\* SpecFields: a client of the courses and assignments endpoints that sends
\* one request at a time and sets, omits and nulls each field of a body, the
\* points within, at the ends of and outside their range, while at most
\* MaxFieldRecords records are stored.
MaxFieldRecords == 2

CourseCreateFields ==
    Bodies([code : {"COMS4153"}, title : {"Cloud", None},
            instructor : {"TBA"}, semester : {"F25"}],
           {CourseFields})

CourseUpdateFields ==
    Bodies([code : {"X", None}, title : {None}, instructor : {None},
            semester : {None}],
           {{}, {"code"}, {"title"}, {"instructor"}, {"semester"}})

AssignmentCreateFields ==
    Bodies([course_id : CourseIds, title : {"HW1"}, due_date : DueDates,
            points : {Some(PointsMax), Some(PointsMax + 1), NoPoints}],
           {{"course_id", "title", "due_date"},
            {"course_id", "title", "due_date", "points"}})

AssignmentUpdateFields ==
    Bodies([course_id : {None}, title : {None}, due_date : {None},
            points : {Some(PointsMin - 1), Some(PointsMin), NoPoints}],
           {{}, {"course_id"}, {"title"}, {"due_date"}, {"points"}})

NextFields ==
    \/ \E course \in CourseCreateFields :
          Stored < MaxFieldRecords /\ create_course(course)
    \/ \E course_id \in CourseIds, update \in CourseUpdateFields :
          update_course(course_id, update)
    \/ \E assignment \in AssignmentCreateFields :
          Stored < MaxFieldRecords /\ create_assignment(assignment)
    \/ \E assignment_id \in AssignmentIds, update \in AssignmentUpdateFields :
          update_assignment(assignment_id, update)
    \/ \E assignment_id \in AssignmentIds : delete_assignment(assignment_id)

SpecFields == Init /\ [][NextFields]_vars

\* --------------------------------------------------------------------------
\* SpecLists: a client that creates records of the four resources that differ
\* in the fields the list endpoints filter on, and lists them with none, one
\* or several query parameters, while at most MaxListRecords are stored.
MaxListRecords == 2

\* the Address embedded in a Person
EmbeddedAddress ==
    [id |-> "d1", street |-> "Broadway", city |-> "NYC", state |-> "NY",
     postal_code |-> "10027", country |-> "USA"]

CourseCreateLists ==
    Bodies([code : Codes, title : {"Cloud"}, instructor : {"TBA"},
            semester : {"F25"}],
           {CourseFields})

AssignmentCreateLists ==
    Bodies([course_id : CourseIds, title : {"HW1"}], {{"course_id", "title"}})

AddressCreateLists ==
    Bodies([id : AddressIds, street : {"Broadway"}, city : Cities,
            state : {"NY"}, postal_code : {"10027"}, country : {"USA"}],
           {AddressFields \cup {"id"}})

PersonCreateLists ==
    Bodies([first_name : {"Ada"}, birth_date : {Date("1815-12-10")},
            addresses : {<<EmbeddedAddress>>}],
           {{}, {"first_name", "birth_date"}, {"first_name", "addresses"}})

CourseQueries ==
    Bodies([code : {"X"}, semester : {"F25"}, instructor : {"Prof. Ferguson"}],
           SUBSET {"code", "semester", "instructor"})

AssignmentQueries == Bodies([course_id : CourseRefs], SUBSET {"course_id"})

AddressQueries ==
    Bodies([street : {"Broadway"}, city : {"NYC"}, state : {"NJ"},
            postal_code : {"10027"}, country : {"USA"}],
           {{}, {"street"}, {"city"}, {"state"}, {"postal_code"}, {"country"},
            {"city", "country"}})

PersonQueries ==
    Bodies([uni : {"al1815"}, first_name : {"Ada"}, last_name : {"Lovelace"},
            email : {"ada@columbia.edu"}, phone : {"+1-212-555-0199"},
            birth_date : {"1815-12-10", "None"}, city : {"NYC"},
            country : {"UK"}],
           {{}, {"uni"}, {"first_name"}, {"last_name"}, {"email"}, {"phone"},
            {"birth_date"}, {"city"}, {"country"},
            {"first_name", "birth_date"}})

NextLists ==
    \/ \E course \in CourseCreateLists :
          Stored < MaxListRecords /\ create_course(course)
    \/ \E assignment \in AssignmentCreateLists :
          Stored < MaxListRecords /\ create_assignment(assignment)
    \/ \E address \in AddressCreateLists :
          Stored < MaxListRecords /\ create_address(address)
    \/ \E person \in PersonCreateLists :
          Stored < MaxListRecords /\ create_person(person)
    \/ \E query \in CourseQueries : list_courses(query)
    \/ \E query \in AssignmentQueries : list_assignments(query)
    \/ \E query \in AddressQueries : list_addresses(query)
    \/ \E query \in PersonQueries : list_persons(query)

SpecLists == Init /\ [][NextLists]_vars

\* --------------------------------------------------------------------------
\* SpecDeletes: a client that creates records of the four resources and
\* deletes Courses and Assignments, while at most MaxDeleteRecords are
\* stored: enough for two Courses beside an Assignment, or for a Person or
\* an Address beside a Course and its Assignment.
MaxDeleteRecords == 3

NextDeletes ==
    \/ \E course \in CourseCreateLists :
          Stored < MaxDeleteRecords /\ create_course(course)
    \/ \E assignment \in AssignmentCreateLists :
          Stored < MaxDeleteRecords /\ create_assignment(assignment)
    \/ \E address \in AddressCreateLists :
          Stored < MaxDeleteRecords /\ create_address(address)
    \/ \E person \in PersonCreateLists :
          Stored < MaxDeleteRecords /\ create_person(person)
    \/ \E course_id \in CourseRefs : delete_course(course_id)
    \/ \E assignment_id \in AssignmentRefs : delete_assignment(assignment_id)

SpecDeletes == Init /\ [][NextDeletes]_vars

\* --------------------------------------------------------------- properties

\* C1: in every state reached by create_course, update_course and
\* delete_course calls run one at a time, no two distinct stored Courses
\* have the same (code, semester) pair.
C1_CoursePairsUnique ==
    \A a \in DOMAIN courses, b \in DOMAIN courses :
        a # b => <<courses[a].code, courses[a].semester>>
                   # <<courses[b].code, courses[b].semester>>

\* two Courses are stored, they share their code, and a create or an update
\* that would have made their pairs equal has just been turned down
C1_Witness ==
    /\ response = Raised(Conflict, CourseTaken)
    /\ \E a \in DOMAIN courses, b \in DOMAIN courses :
          a # b /\ courses[a].code = courses[b].code

\* C2: in every state reached by course and assignment calls run one at a
\* time, the course_id of every stored Assignment is the id of a stored
\* Course, also after an update_assignment whose body omits course_id.
C2_AssignmentsReferToCourses ==
    \A aid \in DOMAIN assignments :
        assignments[aid].course_id \in DOMAIN courses

\* an Assignment has just been updated (only update_assignment sets the
\* title HW2 for this client) while two Courses are stored
C2_Witness ==
    /\ response.by = "update_assignment"
    /\ response.status = OK
    /\ assignments[response.body].title = "HW2"
    /\ Cardinality(DOMAIN courses) = 2

\* C3: after a successful delete_course(C), Course C is absent from the
\* Course store and no Assignment whose course_id equaled C remains, so
\* get_course on C and get_assignment on each of those Assignments, asked
\* next, are answered NotFound.
C3_DeleteCourseCascades ==
    [][\A c \in CourseRefs :
         (delete_course(c) /\ response'.by = "delete_course")
         => /\ response'.status = NoContent
            /\ c \notin DOMAIN courses'
            /\ get_course_reply(c)'.status = NotFound
            /\ \A aid \in DOMAIN assignments' :
                  assignments'[aid].course_id # c
            /\ \A aid \in DOMAIN assignments :
                  assignments[aid].course_id = c
                  => /\ aid \notin DOMAIN assignments'
                     /\ get_assignment_reply(aid)'.status = NotFound]_vars

\* a Course has just been deleted while another Course stays stored
C3_Witness ==
    /\ response = Returned("delete_course", NoContent, None)
    /\ Cardinality(DOMAIN courses) = 1
    /\ assignments = << >>

\* C4: create_course, called with a (code, semester) pair that a stored
\* Course has, is answered Conflict and adds no record: the store is as it
\* was and holds exactly one Course with that pair.
C4_DuplicateCourseIsConflict ==
    [][\A course \in CourseCreateSent :
         (/\ create_course(course)
          /\ CourseCreate(course)
          /\ \E c \in DOMAIN courses :
                /\ courses[c].code = course.code
                /\ courses[c].semester = course.semester)
         => /\ response' = Raised(Conflict, CourseTaken)
            /\ courses' = courses
            /\ Cardinality({c \in DOMAIN courses' :
                   /\ courses'[c].code = course.code
                   /\ courses'[c].semester = course.semester}) = 1]_vars

\* a create has been turned down as a duplicate of the one stored Course
\* (with one Course stored no update can clash)
C4_Witness ==
    /\ response = Raised(Conflict, CourseTaken)
    /\ Cardinality(DOMAIN courses) = 1

\* C5: create_assignment, and update_assignment on a stored Assignment,
\* called with a course_id that is not the id of a stored Course, is
\* answered BadReference (400) and creates or changes no Assignment.
C5_DanglingCourseIdIsRejected ==
    [][/\ \A assignment \in AssignmentCreateSent :
            (/\ create_assignment(assignment)
             /\ AssignmentCreate(assignment)
             /\ assignment.course_id \notin DOMAIN courses)
            => /\ response' = Raised(BadRequest, BadCourseId)
               /\ UNCHANGED stores
       /\ \A aid \in DOMAIN assignments, update \in AssignmentUpdateSent :
            (/\ update_assignment(aid, update)
             /\ AssignmentUpdate(update)
             /\ "course_id" \in DOMAIN update
             /\ update.course_id \notin DOMAIN courses)
            => /\ response' = Raised(BadRequest, BadCourseId)
               /\ UNCHANGED stores]_vars

\* a request naming a Course that is not stored has been turned down while
\* an Assignment is stored
C5_Witness ==
    /\ response = Raised(BadRequest, BadCourseId)
    /\ assignments # << >>

\* the record stored under id after an update is the one stored before with
\* the fields of the body written over it, and the reply carries it
MergedInto(old, new, update, fields) ==
    /\ \A k \in fields :
          new[k] = IF k \in DOMAIN update THEN update[k] ELSE old[k]
    /\ new.id = old.id
    /\ new.created_at = old.created_at

\* C6: after every successful update_address, update_person, update_course
\* and update_assignment, each field the body omits has the value it had
\* before, each field the body carries has the body's value, in the record
\* stored and returned, and id and created_at are as before.
C6_UpdateMergesTheBody ==
    [][/\ response'.by = "update_course"
          => \A update \in CourseUpdateAll :
                update_course(response'.body, update)
                => MergedInto(courses[response'.body],
                              courses'[response'.body], update, CourseFields)
       /\ response'.by = "update_assignment"
          => \A update \in AssignmentUpdateAll :
                update_assignment(response'.body, update)
                => MergedInto(assignments[response'.body],
                              assignments'[response'.body], update,
                              AssignmentFields)
       /\ response'.by = "update_address"
          => \A update \in AddressUpdateAll :
                update_address(response'.body, update)
                => MergedInto(addresses[response'.body],
                              addresses'[response'.body], update,
                              AddressFields)
       /\ response'.by = "update_person"
          => \A update \in PersonUpdateAll :
                update_person(response'.body, update)
                => MergedInto(persons[response'.body],
                              persons'[response'.body], update,
                              PersonFields)]_vars

\* an Assignment has just been updated, after the clock moved, and holds a
\* title only an update sets beside the points only a create leaves
C6_Witness ==
    /\ response.by = "update_assignment"
    /\ assignments[response.body].title = "HW2"
    /\ assignments[response.body].points = Some(PointsDefault)
    /\ assignments[response.body].created_at < now

\* C7: every request that is turned down (NotFound, Conflict, BadReference,
\* DuplicateId, a body or a merged record that fails validation) leaves the
\* four stores as they were, the updated_at of the record it names included.
C7_RejectedLeavesStores ==
    [][response'.status >= BadRequest => UNCHANGED stores]_vars

\* an update_course whose merged record fails validation has been turned
\* down after the clock moved, and the one stored record still carries the
\* updated_at of its creation
C7_Witness ==
    /\ response = Raised(ServerError, "Internal Server Error")
    /\ now > 0
    /\ \E id \in DOMAIN courses :
          courses[id].updated_at = courses[id].created_at
          /\ courses[id].created_at < now

\* an update has changed a field of the record
Changed(old, new, fields) == \E k \in fields : new[k] # old[k]

\* C8: every successful update that changes a stored record of any of the
\* four resources sets its updated_at to the time of the update, so that
\* updated_at never decreases and is never earlier than created_at.
C8_UpdateRefreshesUpdatedAt ==
    [][/\ response'.by = "update_course"
          => \A update \in CourseUpdateAll :
                (/\ update_course(response'.body, update)
                 /\ Changed(courses[response'.body],
                            courses'[response'.body], CourseFields))
                => courses'[response'.body].updated_at = now
       /\ response'.by = "update_assignment"
          => \A update \in AssignmentUpdateAll :
                (/\ update_assignment(response'.body, update)
                 /\ Changed(assignments[response'.body],
                            assignments'[response'.body], AssignmentFields))
                => assignments'[response'.body].updated_at = now
       /\ response'.by = "update_address"
          => \A update \in AddressUpdateAll :
                (/\ update_address(response'.body, update)
                 /\ Changed(addresses[response'.body],
                            addresses'[response'.body], AddressFields))
                => addresses'[response'.body].updated_at = now
       /\ response'.by = "update_person"
          => \A update \in PersonUpdateAll :
                (/\ update_person(response'.body, update)
                 /\ Changed(persons[response'.body],
                            persons'[response'.body], PersonFields))
                => persons'[response'.body].updated_at = now]_vars

\* store dNew is store d with one record added under id, an id d did not
\* hold, whose two timestamps are equal
Inserted(d, dNew, id) ==
    /\ id \notin DOMAIN d
    /\ DOMAIN dNew = DOMAIN d \cup {id}
    /\ \A k \in DOMAIN d : dNew[k] = d[k]
    /\ dNew[id].created_at = dNew[id].updated_at

DeleteReplied ==
    response'.status \in {NoContent, NotFound, MethodNotAllowed}

\* Delete(id) of a store d: NotFound when id is absent, and otherwise the
\* record is removed and Get(id), asked next, is NotFound
Deleted(d, dNew, id, getReply) ==
    IF id \in DOMAIN d
      THEN /\ response'.status = NoContent
           /\ id \notin DOMAIN dNew
           /\ getReply.status = NotFound
      ELSE /\ response'.status = NotFound
           /\ dNew = d

C11_ThreadsKeepPairsUnique ==
    Cardinality({<<c.code, c.semester>> : c \in Values(courses)})
        = Cardinality(DOMAIN courses)

\* C12: when delete_course runs on a thread beside create_assignment or
\* update_assignment naming the same Course, then once every request has
\* completed no stored Assignment refers to a Course that is not stored.
C12_CascadeIsAtomic ==
    (\A t \in Threads : At(t, "idle"))
    => \A aid \in DOMAIN assignments :
          assignments[aid].course_id \in DOMAIN courses

\* the replies a POST request can get
CreateReplied ==
    \/ response'.by \in {"create_address", "create_person", "create_course",
                         "create_assignment"}
    \/ response'.status \in {BadRequest, Conflict, Unprocessable}

\* C13: create_address with an id that is a key of the Address store is
\* answered DuplicateId (400) and the record stored under that id stays as
\* it was; a create of a Person, of a Course with a new pair and of an
\* Assignment of a stored Course is answered 201, whatever ids are stored.
C13_DuplicateAddressId ==
    [][CreateReplied =>
       /\ \A address \in AddressCreateAll :
            (/\ AddressCreate(address)
             /\ address.id \in DOMAIN addresses
             /\ create_address(address))
            => /\ response' = Raised(BadRequest, AddressTaken)
               /\ addresses'[address.id] = addresses[address.id]
               /\ UNCHANGED stores
       /\ \A person \in PersonCreateAll :
            (PersonCreate(person) /\ create_person(person))
            => response'.status = Created
       /\ \A course \in CourseCreateAll :
            (/\ CourseCreate(course)
             /\ ~CourseExists(course.code, course.semester)
             /\ create_course(course))
            => response'.status = Created
       /\ \A assignment \in AssignmentCreateAll :
            (/\ AssignmentCreate(assignment)
             /\ assignment.course_id \in DOMAIN courses
             /\ create_assignment(assignment))
            => response'.status = Created]_vars

\* a create_address has been turned down for its id after the clock moved,
\* and the Address stored under an id still carries the time of its creation
C13_Witness ==
    /\ response = Raised(BadRequest, AddressTaken)
    /\ \E id \in DOMAIN addresses : addresses[id].created_at < now

\* C14, with points an integer in every record: in every state the points
\* of every stored Assignment are an integer from 0 to 1000.
C14_PointsAreInRange ==
    \A aid \in DOMAIN assignments :
        /\ assignments[aid].points # NoPoints
        /\ assignments[aid].points[1] \in PointsMin..PointsMax

\* C14, with points nullable: after every step the points of every stored
\* Assignment are null or an integer from 0 to 1000; they are 100 in the
\* record of a create whose body omits points, and null only when the body
\* of a create or of an update sets them to null.
C14_PointsAreNullOrInRange ==
    [][/\ \A aid \in DOMAIN assignments' :
            \/ assignments'[aid].points = NoPoints
            \/ assignments'[aid].points[1] \in PointsMin..PointsMax
       /\ response'.by = "create_assignment"
          => \A assignment \in AssignmentCreateFields :
                create_assignment(assignment)
                => assignments'[response'.body].points
                     = IF "points" \in DOMAIN assignment
                         THEN assignment.points
                         ELSE Some(PointsDefault)
       /\ response'.by = "update_assignment"
          => \A update \in AssignmentUpdateFields :
                update_assignment(response'.body, update)
                => assignments'[response'.body].points
                     = IF "points" \in DOMAIN update
                         THEN update.points
                         ELSE assignments[response'.body].points]_vars

\* an update has just set the points of an Assignment to null
C14_Witness ==
    /\ response.by = "update_assignment"
    /\ assignments[response.body].points = NoPoints
    /\ assignments[response.body].title = "HW1"

\* the replies a PATCH request on a stored record can get
UpdateReplied ==
    \/ response'.by \in {"update_address", "update_person", "update_course",
                         "update_assignment"}
    \/ response'.status \in {BadRequest, Conflict, Unprocessable, ServerError}

\* C18: update_assignment with a body that sets due_date, or points, to
\* null is answered 200 and stores null in that field, whereas every field
\* a successful update omits keeps its stored value; an update that sets a
\* required field (code, title, instructor, semester of a Course, title,
\* course_id of an Assignment) to null is turned down and leaves the stores
\* as they were.
C18_NullIsNotOmitted ==
    [][UpdateReplied =>
       /\ \A aid \in DOMAIN assignments, update \in AssignmentUpdateFields :
            update_assignment(aid, update)
            => /\ (DOMAIN update = {"due_date"} /\ update.due_date = None)
                  => /\ response'.status = OK
                     /\ assignments'[aid].due_date = None
               /\ (DOMAIN update = {"points"} /\ update.points = NoPoints)
                  => /\ response'.status = OK
                     /\ assignments'[aid].points = NoPoints
               /\ response'.status = OK
                  => \A k \in AssignmentFields \ DOMAIN update :
                        assignments'[aid][k] = assignments[aid][k]
               /\ (\E k \in {"title", "course_id"} \cap DOMAIN update :
                      update[k] = None)
                  => /\ response'.status >= BadRequest
                     /\ UNCHANGED stores
       /\ \A cid \in DOMAIN courses, update \in CourseUpdateFields :
            update_course(cid, update)
            => /\ (\E k \in DOMAIN update : update[k] = None)
                  => /\ response'.status >= BadRequest
                     /\ UNCHANGED stores
               /\ response'.status = OK
                  => \A k \in CourseFields \ DOMAIN update :
                        courses'[cid][k] = courses[cid][k]]_vars

\* an update has just set the due_date of an Assignment to null (every
\* create of this client carries a due_date) and left its points alone
C18_Witness ==
    /\ response.by = "update_assignment"
    /\ assignments[response.body].due_date = None
    /\ assignments[response.body].points = Some(PointsDefault)

\* the stored records of d whose fields equal every value the query supplies
Matching(d, query) ==
    {k \in DOMAIN d : \A f \in DOMAIN query : d[k][f] = query[f]}

\* the stored Persons that match a query: each field equals the value
\* supplied, the birth_date is the date the query writes, and city and
\* country are those of one of the embedded Addresses
MatchingPersons(query) ==
    {k \in DOMAIN persons :
        /\ \A f \in DOMAIN query \ {"birth_date", "city", "country"} :
              persons[k][f] = query[f]
        /\ "birth_date" \in DOMAIN query
              => persons[k].birth_date = Date(query.birth_date)
        /\ \A f \in DOMAIN query \cap {"city", "country"} :
              \E i \in DOMAIN persons[k].addresses :
                  persons[k].addresses[i][f] = query[f]}

\* C15: every list request returns exactly the stored records of its
\* resource whose fields equal every supplied filter value, all of them
\* when no filter is supplied, and leaves the four stores as they were.
C15_ListReturnsTheMatches ==
    [][/\ response'.by = "list_courses"
          => \A query \in CourseQueries :
                list_courses(query)
                => /\ response'.items = Matching(courses, query)
                   /\ UNCHANGED stores
       /\ response'.by = "list_assignments"
          => \A query \in AssignmentQueries :
                list_assignments(query)
                => /\ response'.items = Matching(assignments, query)
                   /\ UNCHANGED stores
       /\ response'.by = "list_addresses"
          => \A query \in AddressQueries :
                list_addresses(query)
                => /\ response'.items = Matching(addresses, query)
                   /\ UNCHANGED stores
       /\ response'.by = "list_persons"
          => \A query \in PersonQueries :
                list_persons(query)
                => /\ response'.items = MatchingPersons(query)
                   /\ UNCHANGED stores]_vars

\* C16: update_course on a stored Course is answered Conflict exactly when
\* another stored Course has the (code, semester) pair the record would have
\* after the merge, a field the body omits counting with its stored value;
\* so a body that repeats the record's own pair is no Conflict.
C16_ConflictIffOtherHasPair ==
    [][UpdateReplied =>
       \A cid \in DOMAIN courses, update \in CourseUpdateSent :
          (CourseUpdate(update) /\ update_course(cid, update))
          => LET code == IF "code" \in DOMAIN update
                           THEN update.code ELSE courses[cid].code
                 sem == IF "semester" \in DOMAIN update
                          THEN update.semester ELSE courses[cid].semester
             IN  /\ response' = Raised(Conflict, CourseTaken)
                    <=> \E other \in DOMAIN courses \ {cid} :
                           /\ courses[other].code = code
                           /\ courses[other].semester = sem
                 /\ response' # Raised(Conflict, CourseTaken)
                    => /\ response' = Returned("update_course", OK, cid)
                       /\ courses'[cid].code = code
                       /\ courses'[cid].semester = sem]_vars

\* a Course has just been updated while another Course with the same
\* semester and another code is stored
C16_Witness ==
    /\ response.by = "update_course"
    /\ \E other \in DOMAIN courses \ {response.body} :
          /\ courses[other].semester = courses[response.body].semester
          /\ courses[other].code # courses[response.body].code

\* C20: in every state each record of the Course store and of the Assignment
\* store is stored under the key that its id field holds.
C20_KeyIsId ==
    /\ \A k \in DOMAIN courses : courses[k].id = k
    /\ \A k \in DOMAIN assignments : assignments[k].id = k

\* an Assignment has just been updated while two Courses are stored, each
\* under its own id
C20_Witness ==
    /\ response.by = "update_assignment"
    /\ assignments[response.body].id = response.body
    /\ Cardinality(DOMAIN courses) = 2
    /\ \A k \in DOMAIN courses : courses[k].id = k

\* the replies other than NotFound that the code of update_<entity> and
\* delete_<entity> can give once the body has passed validation
CourseReplied ==
    \/ response'.status \in {Conflict, ServerError}
    \/ response'.by \in {"update_course", "delete_course"}

AssignmentReplied ==
    \/ response'.status \in {BadRequest, ServerError}
    \/ response'.by \in {"update_assignment", "delete_assignment"}

AddressReplied ==
    response'.status = ServerError \/ response'.by = "update_address"

PersonReplied ==
    response'.status = ServerError \/ response'.by = "update_person"

C17_DeleteRemovesOnlyItsOwn ==
    [][response'.status = NoContent =>
       /\ \A c \in DOMAIN courses : delete_course(c) =>
             /\ DOMAIN courses' = DOMAIN courses \ {c}
             /\ \A k \in DOMAIN courses' : courses'[k] = courses[k]
             /\ DOMAIN assignments'
                  = {a \in DOMAIN assignments : assignments[a].course_id # c}
             /\ \A a \in DOMAIN assignments' :
                   assignments'[a] = assignments[a]
             /\ UNCHANGED <<addresses, persons>>
       /\ \A a \in DOMAIN assignments : delete_assignment(a) =>
             /\ DOMAIN assignments' = DOMAIN assignments \ {a}
             /\ \A k \in DOMAIN assignments' :
                   assignments'[k] = assignments[k]
             /\ UNCHANGED <<courses, addresses, persons>>]_vars

\* a Course has just been deleted and another Course with an Assignment of
\* its own is still stored
C17_Witness ==
    /\ response = Returned("delete_course", NoContent, None)
    /\ \E a \in DOMAIN assignments :
          assignments[a].course_id \in DOMAIN courses

====
